---- MODULE Spec2Model ----
(***************************************************************************)
(* Model of yin-bot's persistence layer (cogs/utils/db_utils.py) and of    *)
(* the prefix command of cogs/admin.py.                                    *)
(*                                                                         *)
(* The database is the two tables made by make_tables.  A PostgreSQL array *)
(* value is modelled as the server stores it: its dimensions and its       *)
(* elements in row-major order.  A Python list handed to or returned by    *)
(* asyncpg is modelled the same way (its shape and its leaves).  Strings   *)
(* are sequences of one-character strings.                                 *)
(***************************************************************************)
EXTENDS Integers, Sequences, FiniteSets, TLC

VARIABLES servers, moderation, server_settings, pc, call, role_list, outcome

vars == <<servers, moderation, server_settings, pc, call, role_list, outcome>>

---------------------------------------------------------------------------
(* Bounds and input sets *)

MaxRoles == 2

Guilds == {1, 2}
Roles == {5, 99}
Mods == {7}
Targets == {8}
Actions == {"BAN", "KICK"}
Tasks == {"t1", "t2"}

\* The guild the concurrent role operations contend for.
Contended == {1}

\* Prefixes a caller that validated the length hands to set_prefix.
StorePrefixes == {<<"!", "!">>}

\* Arguments given to "prefix change": two plain ones, one padded with
\* whitespace on both sides, one too long.
Inputs == {<<"a">>, <<"b">>, <<" ", "a", " ">>, <<"a", "a", "a">>}

Whitespace == {" "}

---------------------------------------------------------------------------
(* Sequences *)

Elems(s) == {s[i] : i \in 1..Len(s)}

RECURSIVE Product(_)
Product(d) == IF d = <<>> THEN 1 ELSE Head(d) * Product(Tail(d))

FirstIndex(s, x) == CHOOSE i \in 1..Len(s) : s[i] = x /\ \A j \in 1..(i - 1) : s[j] # x

RemoveFirst(s, x) ==
    LET i == FirstIndex(s, x)
    IN SubSeq(s, 1, i - 1) \o SubSeq(s, i + 1, Len(s))

\* str.strip(): the string without its leading and trailing whitespace.
RECURSIVE LStrip(_)
LStrip(s) == IF s # <<>> /\ Head(s) \in Whitespace THEN LStrip(Tail(s)) ELSE s

RECURSIVE RStrip(_)
RStrip(s) ==
    IF s # <<>> /\ s[Len(s)] \in Whitespace THEN RStrip(SubSeq(s, 1, Len(s) - 1)) ELSE s

Strip(s) == RStrip(LStrip(s))

---------------------------------------------------------------------------
(* PostgreSQL arrays and their asyncpg codec *)

EmptyArray == [dims |-> <<>>, elems |-> <<>>]

\* Python: [x]
PyList1(x) == [shape |-> <<1>>, items |-> <<x>>]

\* Python: [lst]  (a list whose only element is the list lst)
PyWrap(lst) == [shape |-> <<1>> \o lst.shape, items |-> lst.items]

\* asyncpg array_encode followed by the server's array_recv: a value with no
\* element is the empty array whatever its shape.
Encode(lst) ==
    IF Product(lst.shape) = 0 THEN EmptyArray
    ELSE [dims |-> lst.shape, elems |-> lst.items]

\* asyncpg array_decode: the empty array is [], an n-dimensional array is a
\* list nested n deep.
Decode(arr) ==
    IF arr.dims = <<>> THEN [shape |-> <<0>>, items |-> <<>>]
    ELSE [shape |-> arr.dims, items |-> arr.elems]

\* Mutant: the operator written the other way round (a <@ b).
Contains_Reversed(a, b) == Elems(a.elems) \subseteq Elems(b.elems)

\* a @> b : every element of b is an element of a, dimensions ignored.
Contains(a, b) == Elems(b.elems) \subseteq Elems(a.elems)

\* a || b (array_cat).  Equal dimensions concatenate along the outer one; an
\* array of one dimension less is taken as one more element of the outer
\* dimension; in both cases the inner dimensions must agree.
CatOk(a, b) ==
    \/ a.dims = <<>>
    \/ b.dims = <<>>
    \/ Len(a.dims) = Len(b.dims) /\ Tail(a.dims) = Tail(b.dims)
    \/ Len(a.dims) = Len(b.dims) + 1 /\ Tail(a.dims) = b.dims
    \/ Len(a.dims) + 1 = Len(b.dims) /\ a.dims = Tail(b.dims)

Cat(a, b) ==
    IF a.dims = <<>> THEN b
    ELSE IF b.dims = <<>> THEN a
    ELSE IF Len(a.dims) = Len(b.dims)
         THEN [dims |-> <<Head(a.dims) + Head(b.dims)>> \o Tail(a.dims),
               elems |-> a.elems \o b.elems]
    ELSE IF Len(a.dims) = Len(b.dims) + 1
         THEN [dims |-> <<Head(a.dims) + 1>> \o Tail(a.dims),
               elems |-> a.elems \o b.elems]
    ELSE [dims |-> <<Head(b.dims) + 1>> \o Tail(b.dims),
          elems |-> a.elems \o b.elems]

\* A one-dimensional (or empty) array holding exactly the sequence s.
FlatArray(s) == IF s = <<>> THEN EmptyArray ELSE [dims |-> <<Len(s)>>, elems |-> s]

IsFlat(arr) == Len(arr.dims) <= 1

---------------------------------------------------------------------------
(* Python values *)

\* None: the value that is no list.
PyNone == [shape |-> <<>>, items |-> <<>>]

IsNone(v) == v.shape = <<>>

\* list.remove(x) raises ValueError unless some element equals x; the elements
\* of a nested list are lists, never equal to an integer.
ListRemoveRaises(lst, x) == Len(lst.shape) > 1 \/ x \notin Elems(lst.items)

ListRemove(lst, x) ==
    [shape |-> <<Head(lst.shape) - 1>>, items |-> RemoveFirst(lst.items, x)]

---------------------------------------------------------------------------
(* The servers table and the statements run against it *)

DefaultPrefix == <<"-">>

NewServerRow ==
    [prefix |-> DefaultPrefix,
     assignableroles |-> EmptyArray,
     filterwordswhite |-> EmptyArray,
     filterwordsblack |-> EmptyArray,
     blacklistchannels |-> EmptyArray,
     r9kchannels |-> EmptyArray]

\* Mutant: the conflict clause replaces the row (DO UPDATE) instead of
\* leaving it.
InsertServer_Replace(tbl, g) ==
    [x \in DOMAIN tbl \cup {g} |-> IF x = g THEN NewServerRow ELSE tbl[x]]

\* INSERT INTO servers VALUES (g, '-', [], [], [], [], []) ON CONFLICT DO nothing
InsertServer(tbl, g) ==
    IF g \in DOMAIN tbl THEN tbl
    ELSE [x \in DOMAIN tbl \cup {g} |-> IF x = g THEN NewServerRow ELSE tbl[x]]

\* SELECT serverid, prefix FROM servers, folded into a dict
GetServerPrefix(tbl) == [g \in DOMAIN tbl |-> tbl[g].prefix]

\* SELECT * FROM servers WHERE serverid = g AND assignableroles @> [r]
IsRoleAssignable(tbl, g, r) ==
    g \in DOMAIN tbl /\ Contains(tbl[g].assignableroles, Encode(PyList1(r)))

\* UPDATE servers SET assignableroles = assignableroles || [r] WHERE serverid = g
AppendRoleFails(tbl, g, r) ==
    g \in DOMAIN tbl /\ ~CatOk(tbl[g].assignableroles, Encode(PyList1(r)))

AppendRole(tbl, g, r) ==
    IF g \in DOMAIN tbl
    THEN [tbl EXCEPT ![g].assignableroles = Cat(@, Encode(PyList1(r)))]
    ELSE tbl

\* Mutant: the SELECT without its containment condition.
SelectRolesContaining_NoFilter(tbl, g, r) ==
    IF g \in DOMAIN tbl THEN Decode(tbl[g].assignableroles) ELSE PyNone

\* SELECT assignableroles FROM servers WHERE serverid = g
\*   AND assignableroles @> [r]            (fetchval: None when no row matches)
SelectRolesContaining(tbl, g, r) ==
    IF IsRoleAssignable(tbl, g, r) THEN Decode(tbl[g].assignableroles) ELSE PyNone

\* SELECT assignableroles FROM servers WHERE serverid = g
SelectRoles(tbl, g) ==
    IF g \in DOMAIN tbl THEN Decode(tbl[g].assignableroles) ELSE PyNone

\* UPDATE servers SET assignableroles = $1 WHERE serverid = g, with the
\* argument the code passes for $1: [role_list]
WriteBackArg(lst) == PyWrap(lst)

\* Mutant: the UPDATE matches no row.
UpdateRoles_Skip(tbl, g, lst) == tbl

UpdateRoles(tbl, g, lst) ==
    IF g \in DOMAIN tbl
    THEN [tbl EXCEPT ![g].assignableroles = Encode(WriteBackArg(lst))]
    ELSE tbl

\* prefix varchar(2): storing a longer string is an error unless the excess
\* characters are all spaces, and then the string is cut to the width.
PrefixWidth == 2

VarcharFits(s) == \A i \in (PrefixWidth + 1)..Len(s) : s[i] = " "

VarcharValue(s) == IF Len(s) <= PrefixWidth THEN s ELSE SubSeq(s, 1, PrefixWidth)

\* set_prefix: UPDATE servers SET prefix = s WHERE serverid = g; it reports
\* failure when the guild has no row or the statement fails.
SetPrefixSucceeds(tbl, g, s) == g \in DOMAIN tbl /\ VarcharFits(s)

SetPrefix(tbl, g, s) ==
    IF SetPrefixSucceeds(tbl, g, s)
    THEN [tbl EXCEPT ![g].prefix = VarcharValue(s)]
    ELSE tbl

---------------------------------------------------------------------------
(* The moderation table *)

\* The value insert_modaction passes for an action (action_type.Value).
ActionValue(a) == IF a = "BAN" THEN 1 ELSE 2

\* INSERT INTO moderation VALUES ($1, $2, $3)
ModerationPlaceholders == 3

ModerationRow(g, m, tg, a) ==
    [serverid |-> g, modid |-> m, targetid |-> tg, action |-> a]

\* pool.execute(sql, *args): asyncpg refuses a call whose argument count is
\* not the statement's parameter count.  With three values the row's action
\* is NULL, which the primary key does not allow.  A row whose key is in the
\* table violates the primary key.
ExecuteInsertModaction(tbl, args) ==
    IF Len(args) # ModerationPlaceholders
    THEN [table |-> tbl, error |-> "InterfaceError"]
    ELSE [table |-> tbl, error |-> "NotNullViolationError"]

---------------------------------------------------------------------------
(* Tasks *)

NoCall == [op |-> "none", guild |-> 0, role |-> 0, prefix |-> <<>>,
           mod |-> 0, target |-> 0, action |-> ""]

RoleCall(op, g, r) == [NoCall EXCEPT !.op = op, !.guild = g, !.role = r]

GuildCall(op, g) == [NoCall EXCEPT !.op = op, !.guild = g]

Init ==
    /\ servers = <<>>
    /\ moderation = {}
    /\ server_settings = <<>>
    /\ pc = [t \in Tasks |-> "idle"]
    /\ call = [t \in Tasks |-> NoCall]
    /\ role_list = [t \in Tasks |-> PyNone]
    /\ outcome = [t \in Tasks |-> "none"]

Finish(t, c, lst, res) ==
    /\ pc' = [pc EXCEPT ![t] = "idle"]
    /\ call' = [call EXCEPT ![t] = c]
    /\ role_list' = [role_list EXCEPT ![t] = lst]
    /\ outcome' = [outcome EXCEPT ![t] = res]

add_server(t, g) ==
    /\ pc[t] = "idle"
    /\ servers' = InsertServer(servers, g)
    /\ Finish(t, GuildCall("add_server", g), PyNone, "ok")
    /\ UNCHANGED <<moderation, server_settings>>

\* Mutant: the test of the fetched row inverted.
IsRoleAssignableReturn_Inverted(tbl, g, r) ==
    IF IsRoleAssignable(tbl, g, r) THEN "False" ELSE "True"

\* return True if row else False
IsRoleAssignableReturn(tbl, g, r) ==
    IF IsRoleAssignable(tbl, g, r) THEN "True" ELSE "False"

is_role_assignable(t, g, r) ==
    /\ pc[t] = "idle"
    /\ Finish(t, RoleCall("is_role_assignable", g, r), PyNone,
              IsRoleAssignableReturn(servers, g, r))
    /\ UNCHANGED <<servers, moderation, server_settings>>

get_assignable_roles(t, g) ==
    /\ pc[t] = "idle"
    /\ Finish(t, GuildCall("get_assignable_roles", g), SelectRoles(servers, g), "ok")
    /\ UNCHANGED <<servers, moderation, server_settings>>

RolesStored(tbl, g) == IF g \in DOMAIN tbl THEN Len(tbl[g].assignableroles.elems) ELSE 0

add_assignable_role(t, g, r) ==
    /\ pc[t] = "idle"
    /\ RolesStored(servers, g) < MaxRoles
    /\ IF AppendRoleFails(servers, g, r)
       THEN /\ Finish(t, RoleCall("add_assignable_role", g, r), PyNone,
                      "ArraySubscriptError")
            /\ UNCHANGED servers
       ELSE /\ servers' = AppendRole(servers, g, r)
            /\ Finish(t, RoleCall("add_assignable_role", g, r), PyNone, "ok")
    /\ UNCHANGED <<moderation, server_settings>>

\* remove_assignable_role up to its second await: the SELECT, then
\* role_list.remove(role_id) on what it returned.
RemoveRead(t, g, r) ==
    /\ pc[t] = "idle"
    /\ LET got == SelectRolesContaining(servers, g, r)
           c == RoleCall("remove_assignable_role", g, r)
       IN IF IsNone(got) THEN Finish(t, c, got, "AttributeError")
          ELSE IF ListRemoveRaises(got, r) THEN Finish(t, c, got, "ValueError")
          ELSE /\ pc' = [pc EXCEPT ![t] = "remove_await"]
               /\ call' = [call EXCEPT ![t] = c]
               /\ role_list' = [role_list EXCEPT ![t] = ListRemove(got, r)]
               /\ outcome' = [outcome EXCEPT ![t] = "none"]
    /\ UNCHANGED <<servers, moderation, server_settings>>

\* remove_assignable_role from its second await on: the UPDATE.
RemoveWrite(t) ==
    /\ pc[t] = "remove_await"
    /\ servers' = UpdateRoles(servers, call[t].guild, role_list[t])
    /\ pc' = [pc EXCEPT ![t] = "idle"]
    /\ outcome' = [outcome EXCEPT ![t] = "ok"]
    /\ UNCHANGED <<moderation, server_settings, call, role_list>>

set_prefix(t, g, s) ==
    /\ pc[t] = "idle"
    /\ servers' = SetPrefix(servers, g, s)
    /\ Finish(t, [GuildCall("set_prefix", g) EXCEPT !.prefix = s], PyNone,
              IF SetPrefixSucceeds(servers, g, s) THEN "True" ELSE "False")
    /\ UNCHANGED <<moderation, server_settings>>

insert_modaction(t, g, m, tg, a) ==
    /\ pc[t] = "idle"
    /\ LET res == ExecuteInsertModaction(moderation, <<g, m, tg, ActionValue(a)>>)
       IN /\ moderation' = res.table
          /\ Finish(t, [GuildCall("insert_modaction", g) EXCEPT
                           !.mod = m, !.target = tg, !.action = a],
                    PyNone, res.error)
    /\ UNCHANGED <<servers, server_settings>>

---------------------------------------------------------------------------
(* The prefix command and the bot's settings cache *)

\* if len(prefix.strip()) > 2
MaxPrefixLen == 2

Rejected(s) == Len(Strip(s)) > MaxPrefixLen

\* The argument change hands to set_prefix.
PrefixArg(s) == s

\* change up to its await of set_prefix (or, for a rejected argument, to its
\* return after the error message).
ChangeCall(t, g, s) ==
    /\ pc[t] = "idle"
    /\ IF Rejected(s)
       THEN Finish(t, [GuildCall("change", g) EXCEPT !.prefix = s], PyNone, "rejected")
       ELSE /\ pc' = [pc EXCEPT ![t] = "change_await"]
            /\ call' = [call EXCEPT
                          ![t] = [GuildCall("change", g) EXCEPT !.prefix = PrefixArg(s)]]
            /\ role_list' = [role_list EXCEPT ![t] = PyNone]
            /\ outcome' = [outcome EXCEPT ![t] = "none"]
    /\ UNCHANGED <<servers, moderation, server_settings>>

\* The store runs set_prefix's statement; success is what the call will return.
SetPrefixReturn(t) ==
    /\ pc[t] = "change_await"
    /\ servers' = SetPrefix(servers, call[t].guild, call[t].prefix)
    /\ pc' = [pc EXCEPT ![t] = "change_resume"]
    /\ outcome' = [outcome EXCEPT
                     ![t] = IF SetPrefixSucceeds(servers, call[t].guild, call[t].prefix)
                            THEN "True" ELSE "False"]
    /\ UNCHANGED <<moderation, server_settings, call, role_list>>

\* change from the await on: if success, server_settings[g]['prefix'] = prefix
\* (a KeyError for a guild without settings is swallowed by the except).
CacheWrite(cache, g, s) ==
    IF g \in DOMAIN cache THEN [cache EXCEPT ![g].prefix = s] ELSE cache

ChangeResume(t) ==
    /\ pc[t] = "change_resume"
    /\ server_settings' =
         IF outcome[t] = "True"
         THEN CacheWrite(server_settings, call[t].guild, call[t].prefix)
         ELSE server_settings
    /\ pc' = [pc EXCEPT ![t] = "idle"]
    /\ outcome' = [outcome EXCEPT
                     ![t] = IF outcome[t] = "True"
                            THEN (IF call[t].guild \in DOMAIN server_settings
                                  THEN "set" ELSE "KeyError swallowed")
                            ELSE "not set"]
    /\ UNCHANGED <<servers, moderation, call, role_list>>

\* The bot fills server_settings from get_server_prefix() when it starts.
WarmUp ==
    /\ \A t \in Tasks : pc[t] = "idle"
    /\ server_settings' =
         [g \in DOMAIN servers |-> [prefix |-> GetServerPrefix(servers)[g]]]
    /\ server_settings' # server_settings
    /\ UNCHANGED <<servers, moderation, pc, call, role_list, outcome>>

---------------------------------------------------------------------------
(* One client calling the store, each call after the one before returned *)

StoreCall(t) ==
    \/ \E g \in Guilds : add_server(t, g)
    \/ \E g \in Guilds, r \in Roles : add_assignable_role(t, g, r)
    \/ \E g \in Guilds, r \in Roles : RemoveRead(t, g, r)
    \/ RemoveWrite(t)
    \/ \E g \in Guilds, r \in Roles : is_role_assignable(t, g, r)
    \/ \E g \in Guilds : get_assignable_roles(t, g)
    \/ \E g \in Guilds, m \in Mods, tg \in Targets, a \in Actions :
           insert_modaction(t, g, m, tg, a)

Next == StoreCall("t1")

Spec == Init /\ [][Next]_vars

\* One client configuring guilds: registering them, setting prefixes, adding
\* roles.
ConfigCall(t) ==
    \/ \E g \in Guilds : add_server(t, g)
    \/ \E g \in Guilds, s \in StorePrefixes : set_prefix(t, g, s)
    \/ \E g \in Guilds, r \in Roles : add_assignable_role(t, g, r)

NextConfig == ConfigCall("t1")

SpecConfig == Init /\ [][NextConfig]_vars

---------------------------------------------------------------------------
(* Claims about the store under one client *)

Faults == {"AttributeError", "ValueError", "InterfaceError",
           "NotNullViolationError", "UniqueViolationError", "ArraySubscriptError"}

\* C1: add_server(g) on a guild that has a row leaves the whole table as it
\* was (one row for g, every field unchanged) and raises nothing; on a guild
\* with no row it adds exactly one row, with prefix "-" and empty arrays, and
\* changes no other row.
C1_AddServerIdempotent ==
    [][\A t \in Tasks, g \in Guilds :
         add_server(t, g) =>
           /\ outcome'[t] = "ok"
           /\ IF g \in DOMAIN servers
              THEN servers' = servers
              ELSE /\ DOMAIN servers' = DOMAIN servers \cup {g}
                   /\ servers'[g].prefix = <<"-">>
                   /\ servers'[g].assignableroles = EmptyArray
                   /\ servers'[g].filterwordswhite = EmptyArray
                   /\ servers'[g].filterwordsblack = EmptyArray
                   /\ servers'[g].blacklistchannels = EmptyArray
                   /\ servers'[g].r9kchannels = EmptyArray
                   /\ \A x \in DOMAIN servers : servers'[x] = servers[x]]_vars

\* add_server has just returned for a guild whose prefix and roles had both
\* been changed before the call.
C1_Witness ==
    \E t \in Tasks :
      /\ pc[t] = "idle" /\ call[t].op = "add_server" /\ outcome[t] = "ok"
      /\ call[t].guild \in DOMAIN servers
      /\ servers[call[t].guild].prefix # <<"-">>
      /\ servers[call[t].guild].assignableroles # EmptyArray

\* C2: an insert_modaction(g, m, t, action) that has returned raised no
\* fault and its row (g, m, t, action) is in the moderation table, once.
C2_ModactionLogged ==
    \A t \in Tasks :
      (pc[t] = "idle" /\ call[t].op = "insert_modaction") =>
        /\ outcome[t] \notin Faults
        /\ ModerationRow(call[t].guild, call[t].mod, call[t].target,
                         ActionValue(call[t].action)) \in moderation

\* C3: a remove_assignable_role(g, r) on a guild that has a row, whose read
\* found no sequence holding r, ends with a "not present" failure, not with an
\* unhandled fault.
C3_RemoveAbsentNotPresent ==
    \A t \in Tasks :
      (pc[t] = "idle" /\ call[t].op = "remove_assignable_role"
         /\ call[t].guild \in DOMAIN servers
         /\ ~IsRoleAssignable(servers, call[t].guild, call[t].role)
         /\ IsNone(role_list[t])) =>
        outcome[t] \notin Faults

\* C4 as stated: right after add_assignable_role(g, r) returns r is
\* assignable in g, and right after remove_assignable_role(g, r) returns r is
\* not, whatever was added before.
C4_SetSemanticsOriginal ==
    [][\A t \in Tasks :
         /\ \A g \in DOMAIN servers, r \in Roles :
              (add_assignable_role(t, g, r) /\ outcome'[t] = "ok") =>
                IsRoleAssignable(servers', g, r)
         /\ RemoveWrite(t) =>
              ~IsRoleAssignable(servers', call[t].guild, call[t].role)]_vars

\* C4 amended: right after add_assignable_role(g, r) returns r is assignable
\* in g; right after remove_assignable_role(g, r) returns, r is assignable
\* exactly when the sequence the call read held r more than once.
C4_SetSemantics ==
    [][\A t \in Tasks :
         /\ \A g \in DOMAIN servers, r \in Roles :
              (add_assignable_role(t, g, r) /\ outcome'[t] = "ok") =>
                IsRoleAssignable(servers', g, r)
         /\ RemoveWrite(t) =>
              (IsRoleAssignable(servers', call[t].guild, call[t].role)
                 <=> call[t].role \in Elems(role_list[t].items))]_vars

\* remove_assignable_role has just returned, other roles are left, and the
\* removed role is no longer assignable.
C4_Witness ==
    \E t \in Tasks :
      /\ pc[t] = "idle" /\ call[t].op = "remove_assignable_role"
      /\ outcome[t] = "ok"
      /\ role_list[t].items # <<>>
      /\ ~IsRoleAssignable(servers, call[t].guild, call[t].role)

\* C5: for a guild with no row, is_role_assignable returns false for every
\* role, get_assignable_roles returns None or an empty list, neither raises,
\* and the table is left as it was (still without a row for the guild).
C5_UnknownGuildQueries ==
    [][\A t \in Tasks, g \in Guilds \ DOMAIN servers :
         /\ \A r \in Roles :
              is_role_assignable(t, g, r) =>
                outcome'[t] = "False" /\ servers' = servers
         /\ get_assignable_roles(t, g) =>
              /\ outcome'[t] = "ok"
              /\ IsNone(role_list'[t]) \/ role_list'[t].items = <<>>
              /\ servers' = servers]_vars

\* is_role_assignable has just answered false for a guild with no row, about
\* a role that is assignable in another guild.
C5_Witness ==
    \E t \in Tasks, x \in DOMAIN servers :
      /\ pc[t] = "idle" /\ call[t].op = "is_role_assignable"
      /\ call[t].guild \notin DOMAIN servers
      /\ outcome[t] = "False"
      /\ IsRoleAssignable(servers, x, call[t].role)

\* C8: an undisturbed remove_assignable_role(g, r) on a flat sequence s
\* stores the flat sequence s without its first r, and changes no other row.
C8_RemoveFirstOccurrence ==
    [][\A t \in Tasks :
         (RemoveWrite(t) /\ call[t].guild \in DOMAIN servers) =>
           LET g == call[t].guild
               old == servers[g].assignableroles
           IN (IsFlat(old) /\ role_list[t].items = RemoveFirst(old.elems, call[t].role)) =>
                /\ servers'[g].assignableroles =
                     FlatArray(RemoveFirst(old.elems, call[t].role))
                /\ \A x \in DOMAIN servers \ {g} : servers'[x] = servers[x]]_vars

---------------------------------------------------------------------------
(* Tasks calling the role operations concurrently *)

RoleCalls(t) ==
    \/ \E g \in Contended : add_server(t, g)
    \/ \E g \in Contended, r \in Roles : add_assignable_role(t, g, r)
    \/ \E g \in Contended, r \in Roles : RemoveRead(t, g, r)
    \/ RemoveWrite(t)

NextConc == \E t \in Tasks : RoleCalls(t)

SpecConc == Init /\ [][NextConc]_vars

\* Task p's remove_assignable_role(g, r) has written back and returned while
\* task q's call with the same arguments is between its read and its write;
\* each read a sequence holding r exactly once.
OverlappedRemoval(p, q) ==
    /\ p # q
    /\ call[p].op = "remove_assignable_role" /\ call[q] = call[p]
    /\ pc[p] = "idle" /\ outcome[p] = "ok"
    /\ pc[q] = "remove_await"
    /\ call[p].role \notin Elems(role_list[p].items)
    /\ call[q].role \notin Elems(role_list[q].items)
    /\ ~IsRoleAssignable(servers, call[p].guild, call[p].role)

\* C6 as stated: of two concurrent remove_assignable_role(g, r) calls on a
\* sequence holding r once, exactly one succeeds: when one has succeeded, the
\* other does not.
C6_ExactlyOneSucceeds ==
    [][\A p \in Tasks, q \in Tasks :
         (OverlappedRemoval(p, q) /\ RemoveWrite(q)) => outcome'[q] # "ok"]_vars

\* C6 amended: the outcome depends on the interleaving.  A call whose read
\* comes after the other's write-back finds no sequence holding r, fails with
\* the AttributeError of C3 and writes nothing; a call whose read came before
\* it succeeds too, so both succeed when both reads precede both
\* write-backs, and r is not in the stored sequence afterwards.
C6_ConcurrentRemovals ==
    [][\A p \in Tasks, q \in Tasks :
         /\ (OverlappedRemoval(p, q) /\ RemoveWrite(q)) =>
              /\ outcome'[q] = "ok"
              /\ ~IsRoleAssignable(servers', call[q].guild, call[q].role)
         /\ \A g \in DOMAIN servers, r \in Roles :
              (RemoveRead(q, g, r) /\ ~IsRoleAssignable(servers, g, r)) =>
                /\ outcome'[q] = "AttributeError" /\ pc'[q] = "idle"
                /\ servers' = servers]_vars

\* One of two overlapping removals of the same role has succeeded and the
\* other, which read before that write-back, is about to write.
C6_Witness == \E p \in Tasks, q \in Tasks : OverlappedRemoval(p, q)

\* C7: a write-back of remove_assignable_role(g, r1) discards every other
\* role that is in g's stored sequence and was not in the sequence the call
\* read: an add_assignable_role(g, r2) that committed in between is lost.
C7_LostUpdate ==
    [][\A t \in Tasks :
         (RemoveWrite(t) /\ call[t].guild \in DOMAIN servers) =>
           \A r2 \in Roles \ {call[t].role} :
             (IsRoleAssignable(servers, call[t].guild, r2)
                /\ r2 \notin Elems(role_list[t].items)) =>
               ~IsRoleAssignable(servers', call[t].guild, r2)]_vars

\* Both calls have returned without error, the add of r2 after the removal's
\* read, and r2 is not stored.
C7_Witness ==
    \E t \in Tasks, q \in Tasks :
      /\ pc[t] = "idle" /\ call[t].op = "remove_assignable_role"
      /\ outcome[t] = "ok"
      /\ pc[q] = "idle" /\ call[q].op = "add_assignable_role"
      /\ outcome[q] = "ok"
      /\ call[q].guild = call[t].guild /\ call[q].role # call[t].role
      /\ call[q].role \notin Elems(role_list[t].items)
      /\ ~IsRoleAssignable(servers, call[q].guild, call[q].role)

---------------------------------------------------------------------------
(* Tasks running the prefix command concurrently *)

PrefixCalls(t) ==
    \/ \E g \in Guilds : add_server(t, g)
    \/ \E g \in Guilds, s \in Inputs : ChangeCall(t, g, s)
    \/ SetPrefixReturn(t)
    \/ ChangeResume(t)

NextPrefix == WarmUp \/ \E t \in Tasks : PrefixCalls(t)

SpecPrefix == Init /\ [][NextPrefix]_vars

ChangeInFlight(g) ==
    \E t \in Tasks : pc[t] \in {"change_await", "change_resume"} /\ call[t].guild = g

\* C9: the value change passes to set_prefix, every stored prefix and every
\* cached prefix has at most 2 characters.
C9_PrefixLength ==
    /\ \A t \in Tasks :
         pc[t] \in {"change_await", "change_resume"} => Len(call[t].prefix) <= 2
    /\ \A g \in DOMAIN servers : Len(servers[g].prefix) <= 2
    /\ \A g \in DOMAIN server_settings : Len(server_settings[g].prefix) <= 2

\* C10: when no change command is in flight for a guild, its cached prefix
\* is its stored prefix.  (Stated for cached prefixes within the length
\* bound, so that the over-long arguments of C9 are not what breaks it.)
C10_CacheInSync ==
    \A g \in DOMAIN server_settings \cap DOMAIN servers :
      (~ChangeInFlight(g) /\ Len(server_settings[g].prefix) <= 2) =>
        server_settings[g].prefix = servers[g].prefix

====
